---- MODULE Spec2Model ----
(***************************************************************************)
(* Logo-Reload (DJ Logo Stylizer): the App component's state, its event    *)
(* handlers and the Gemini/Veo service functions they await.               *)
(*                                                                         *)
(* JavaScript runs one task at a time: a handler runs until its next       *)
(* await on the host, the network, a timer or a FileReader, and each       *)
(* action below is one such run (a handler's start, or the continuation of *)
(* one await, up to the next await or the handler's return).  A promise    *)
(* that settles without leaving the script (a throw before the first real  *)
(* await of an async function) continues in the same action.               *)
(*                                                                         *)
(* Texts are sequences of fragments: concatenation is \o and               *)
(* String.prototype.includes is the search for a fragment.                 *)
(***************************************************************************)
EXTENDS Integers, Sequences, FiniteSets, TLC

\* ------------------------------------------------------------------ bounds
\* How many styles of the catalog a batch runs over (a prefix of STYLES).
MaxStyles == 2
\* How many polls may report not-done before the remote operation is done.
MaxPolls == 2
\* How many host key-selection dialogs may be open at once.
MaxDialogs == 1

\* --------------------------------------------------------------- constants
STYLES ==
  << "Cyberpunk", "Sci-fi", "Steampunk", "Neo-Retro", "Abstract",
     "Vaporwave", "Minimalist", "Pixel Art", "Grunge", "Art Deco" >>

\* The catalog a batch iterates over.
Catalog == SubSeq(STYLES, 1, IF MaxStyles < Len(STYLES) THEN MaxStyles ELSE Len(STYLES))

\* null of a string-typed state field, and of a structured one.
NULL == "null"
Null == [type |-> "null"]
Str(t) == [type |-> "string", text |-> t]
\* The error markup that carries a button bound to handleSelectVeoApiKey.
Jsx(t) == [type |-> "jsx", text |-> t, onClick |-> "handleSelectVeoApiKey"]

\* JavaScript truthiness of a string | null.
Truthy(s) == s # NULL /\ s # ""

\* The validation that only catches null, not the '' left by a removal.
NoImage_NullOnly(image) == image = NULL

\* if (!uploadedImage) at the head of generateVariations and handleGenerateVideo.
NoImage(image) == ~Truthy(image)

\* The files the user can pick: a file's data URL and its name.
Files == {"logoA", "logoB"}
DataUrl(f) == "data:image/png;base64," \o f
FileOf(url) == CHOOSE f \in Files : DataUrl(f) = url

\* text.includes(fragment)
Includes(text, fragment) == \E i \in 1..Len(text) : text[i] = fragment

NOT_FOUND == "Requested entity was not found."
\* Messages a failing Veo call can carry, and a failing generateContent call.
RemoteMessages == { << "quota exceeded" >>, << "404: ", NOT_FOUND >> }
RestyleMessages == { << "rate limited" >> }

\* ------------------------------------------------------------------- state
VARIABLES
  \* React state of App
  uploadedImage, uploadedFileName, generating, generatedImages, error,
  videoPrompt, generatedVideo, generatingVideo, videoError, hasSelectedVeoApiKey,
  \* environment: window.aistudio's methods, process.env.API_KEY, the host's
  \* answer, and the object URLs the page has revoked
  aistudio, apiKey, hostHasKey, revoked,
  \* pending asynchronous work
  mount,      \* the mount effect's checkKey: "start", "awaiting", "done"
  reads,      \* files a FileReader is reading
  dialogs,    \* openSelectKey() calls not yet settled
  batch,      \* the running generateVariations activation
  job,        \* the running handleGenerateVideo activation
  \* history of the current batch and video job
  settled,    \* what the generateStyledImage calls settled by the latest loop step ended with
  calls,      \* the calls of the running video job, in order
  ended       \* how the latest handleGenerateVideo invocation ended

appVars == << uploadedImage, uploadedFileName, generating, generatedImages, error,
              videoPrompt, generatedVideo, generatingVideo, videoError,
              hasSelectedVeoApiKey >>
imageVars == << generating, generatedImages, error, batch, settled >>
videoVars == << generatedVideo, generatingVideo, videoError, hasSelectedVeoApiKey,
                job, calls, ended >>
envVars == << aistudio, apiKey, hostHasKey, revoked >>
vars == << uploadedImage, uploadedFileName, generating, generatedImages, error,
           videoPrompt, generatedVideo, generatingVideo, videoError,
           hasSelectedVeoApiKey, aistudio, apiKey, hostHasKey, revoked, mount,
           reads,
           dialogs, batch, job, settled, calls, ended >>

IdleBatch == [pc |-> "idle"]
IdleJob == [pc |-> "idle"]

Init ==
  /\ uploadedImage = NULL
  /\ uploadedFileName = NULL
  /\ generating = FALSE
  /\ generatedImages = << >>
  /\ error = Null
  /\ videoPrompt = ""
  /\ generatedVideo = Null
  /\ generatingVideo = FALSE
  /\ videoError = Null
  /\ hasSelectedVeoApiKey = FALSE
  /\ aistudio \in SUBSET {"hasSelectedApiKey", "openSelectKey"}
  /\ apiKey \in BOOLEAN
  /\ hostHasKey \in IF "hasSelectedApiKey" \in aistudio THEN BOOLEAN ELSE {FALSE}
  /\ revoked = {}
  /\ mount = "start"
  /\ reads = {}
  /\ dialogs = 0
  /\ batch = IdleBatch
  /\ job = IdleJob
  /\ settled = << >>
  /\ calls = << >>
  /\ ended = Null

\* The disabled flag App passes to ImageUpload.
isLoading == generating \/ generatingVideo

\* ------------------------------------------------------- mount effect
\* useEffect(checkKey): the host is asked when it offers hasSelectedApiKey,
\* otherwise the flag is !!process.env.API_KEY at once.
CheckKeyEffect ==
  /\ mount = "start"
  /\ IF "hasSelectedApiKey" \in aistudio
       THEN /\ mount' = "awaiting"
            /\ UNCHANGED hasSelectedVeoApiKey
       ELSE /\ mount' = "done"
            /\ hasSelectedVeoApiKey' = apiKey
  /\ UNCHANGED << uploadedImage, uploadedFileName, generating, generatedImages,
                  error, videoPrompt, generatedVideo, generatingVideo, videoError,
                  envVars, reads, dialogs, batch, job, settled, calls, ended >>

\* await window.aistudio.hasSelectedApiKey() of checkKey settles.
CheckKeyResolve ==
  /\ mount = "awaiting"
  /\ mount' = "done"
  /\ hasSelectedVeoApiKey' = hostHasKey
  /\ UNCHANGED << uploadedImage, uploadedFileName, generating, generatedImages,
                  error, videoPrompt, generatedVideo, generatingVideo, videoError,
                  envVars, reads, dialogs, batch, job, settled, calls, ended >>

\* ------------------------------------------------------------- upload
\* An upload that leaves the video result and its error in place.
handleImageUpload_KeepsVideo(base64, fileName) ==
  /\ uploadedImage' = base64
  /\ uploadedFileName' = fileName
  /\ generatedImages' = << >>
  /\ error' = Null
  /\ UNCHANGED << generatedVideo, videoError >>

\* handleImageUpload(base64, fileName): the six setters.
handleImageUpload(base64, fileName) ==
  /\ uploadedImage' = base64
  /\ uploadedFileName' = fileName
  /\ generatedImages' = << >>
  /\ generatedVideo' = Null
  /\ error' = Null
  /\ videoError' = Null

\* The file input's onChange: it is rendered while no image is shown and is
\* disabled while isLoading.  The read of the picked file starts; a file over
\* 5MB is refused with an alert and changes nothing.
HandleFileChange(f) ==
  /\ mount # "start"
  /\ ~Truthy(uploadedImage)
  /\ ~isLoading
  /\ f \notin reads
  /\ reads' = reads \cup {f}
  /\ UNCHANGED << appVars, envVars, mount, dialogs, batch, job, settled, calls, ended >>

\* reader.onloadend: nothing here looks at isLoading or at the image shown.
ReaderLoadEnd(f) ==
  /\ f \in reads
  /\ reads' = reads \ {f}
  /\ handleImageUpload(DataUrl(f), f)
  /\ UNCHANGED << generating, videoPrompt, generatingVideo, hasSelectedVeoApiKey,
                  envVars, mount, dialogs, batch, job, settled, calls, ended >>

\* The remove button: rendered while an image is shown, disabled while isLoading.
HandleRemoveImage ==
  /\ Truthy(uploadedImage)
  /\ ~isLoading
  /\ handleImageUpload("", "")
  /\ UNCHANGED << generating, videoPrompt, generatingVideo, hasSelectedVeoApiKey,
                  envVars, mount, reads, dialogs, batch, job, settled, calls, ended >>

\* ------------------------------------------------- generateStyledImage
Returned(v) == [ok |-> TRUE, value |-> v]
Thrown(m) == [ok |-> FALSE, message |-> m]

TextPart == [inlineData |-> Null, text |-> "Here is your logo."]
ImagePart(d) == [inlineData |-> [mimeType |-> "image/png", data |-> d]]

\* What ai.models.generateContent can settle with for a request carrying image.
RestyleResponses(image) ==
  { [rejects |-> TRUE, message |-> m] : m \in RestyleMessages }
  \cup { [rejects |-> FALSE, parts |-> p] :
           p \in { << >>, << ImagePart(FileOf(image)) >>,
                   << TextPart, ImagePart(FileOf(image)) >> } }

NoKeyMessage == << "API_KEY is not defined in environment variables." >>

\* response.candidates?.[0]?.content?.parts?.[0]?.inlineData
FirstInlineData(response) ==
  IF Len(response.parts) = 0 THEN Null ELSE response.parts[1].inlineData

\* The try/catch of generateStyledImage on the settled generateContent call:
\* every error, its own "no image data" included, is rethrown with a prefix.
generateStyledImage(response) ==
  IF response.rejects
    THEN Thrown(<< "Failed to generate image: " >> \o response.message)
    ELSE LET generatedImagePart == FirstInlineData(response) IN
         IF generatedImagePart # Null
              /\ generatedImagePart.mimeType # "" /\ generatedImagePart.data # ""
           THEN Returned("data:" \o generatedImagePart.mimeType \o ";base64,"
                           \o generatedImagePart.data)
           ELSE Thrown(<< "Failed to generate image: ",
                          "No image data found in the response." >>)

\* --------------------------------------------------- generateVariations
placeholderImage(style, fileName) ==
  [ style |-> style, imageUrl |-> "",
    originalFileName |-> IF Truthy(fileName) THEN fileName ELSE "logo.png" ]

\* The update applied to every entry, whatever its style.
SetImageUrl_AllEntries(prev, style, imageUrl) ==
  IF prev = << >> THEN << >>
  ELSE [ k \in 1..Len(prev) |-> [prev[k] EXCEPT !.imageUrl = imageUrl] ]

\* prev.map(img => img.style === style ? { ...img, imageUrl } : img)
SetImageUrl(prev, style, imageUrl) ==
  IF prev = << >> THEN << >>
  ELSE [ k \in 1..Len(prev) |->
           IF prev[k].style = style THEN [prev[k] EXCEPT !.imageUrl = imageUrl]
           ELSE prev[k] ]

\* The line written without the style it is about.
AppendError_NoStyle(prev, style, message) ==
  Str( (IF prev # Null /\ prev.text # << >> THEN prev.text \o << "\n" >> ELSE << >>)
       \o << "Failed to generate ", "image", " style: " >> \o message )

\* `${prev ? prev + '\n' : ''}Failed to generate ${style} style: ${message}`
AppendError(prev, style, message) ==
  Str( (IF prev # Null /\ prev.text # << >> THEN prev.text \o << "\n" >> ELSE << >>)
       \o << "Failed to generate ", style, " style: " >> \o message )

\* What became of the generateStyledImage call of style i: whether it returned
\* and what, the message it threw, and what generateContent settled with (Null
\* when the call was never made): the message it rejected with, or the parts it
\* resolved with.
Outcome(i, result, response) ==
  [ i |-> i, ok |-> result.ok,
    value |-> IF result.ok THEN result.value ELSE "",
    message |-> IF result.ok THEN << >> ELSE result.message,
    remote |-> IF response # Null /\ response.rejects THEN response.message ELSE << >>,
    resolved |-> response # Null /\ ~response.rejects,
    parts |-> IF response # Null /\ ~response.rejects THEN response.parts ELSE << >> ]

\* The for loop from style i on, up to the next awaited generateContent call:
\* without process.env.API_KEY generateStyledImage throws before any call, so
\* the iteration fails and the loop goes on in the same task.
RECURSIVE Iterate(_, _, _, _, _)
Iterate(i, images, err, outs, fileName) ==
  IF i > Len(Catalog)
    THEN [images |-> images, error |-> err, settled |-> outs, awaiting |-> 0]
    ELSE LET placed == Append(images, placeholderImage(Catalog[i], fileName)) IN
         IF apiKey
           THEN [images |-> placed, error |-> err, settled |-> outs, awaiting |-> i]
           ELSE Iterate(i + 1, SetImageUrl(placed, Catalog[i], "error"),
                        AppendError(err, Catalog[i], NoKeyMessage),
                        Append(outs, Outcome(i, Thrown(NoKeyMessage), Null)), fileName)

\* The flag cleared as soon as the loop stops at an await.
LoopState_FlagClearedEarly(r, image, fileName) ==
  /\ generatedImages' = r.images
  /\ error' = r.error
  /\ settled' = r.settled
  /\ generating' = FALSE
  /\ batch' = IF r.awaiting # 0
                THEN [pc |-> "await", i |-> r.awaiting, image |-> image,
                      fileName |-> fileName]
                ELSE IdleBatch

\* The loop's state after Iterate: generating stays true while a call is awaited.
LoopState(r, image, fileName) ==
  /\ generatedImages' = r.images
  /\ error' = r.error
  /\ settled' = r.settled
  /\ generating' = (r.awaiting # 0)
  /\ batch' = IF r.awaiting # 0
                THEN [pc |-> "await", i |-> r.awaiting, image |-> image,
                      fileName |-> fileName]
                ELSE IdleBatch

\* generateVariations up to its first await.
generateVariations ==
  IF NoImage(uploadedImage)
    THEN /\ error' = Str(<< "Please upload an image first." >>)
         /\ UNCHANGED << generating, generatedImages, batch, settled >>
    ELSE LoopState(Iterate(1, << >>, Null, << >>, uploadedFileName),
                   uploadedImage, uploadedFileName)

\* The button that stays enabled while a batch runs.
VariationsButtonDisabled_NotWhileGenerating == ~Truthy(uploadedImage)

\* disabled={!uploadedImage || generating}
VariationsButtonDisabled == ~Truthy(uploadedImage) \/ generating

\* A batch whose start also resets the video panel.
ClickGenerateVariations_ResetsVideo ==
  /\ mount # "start"
  /\ ~VariationsButtonDisabled
  /\ generateVariations
  /\ generatedVideo' = Null
  /\ videoError' = Null
  /\ UNCHANGED << uploadedImage, uploadedFileName, videoPrompt, generatingVideo,
                  hasSelectedVeoApiKey, envVars, mount, reads, dialogs, job,
                  calls, ended >>

\* The "Generate Image Variations" button.
ClickGenerateVariations ==
  /\ mount # "start"
  /\ ~VariationsButtonDisabled
  /\ generateVariations
  /\ UNCHANGED << uploadedImage, uploadedFileName, videoPrompt, generatedVideo,
                  generatingVideo, videoError, hasSelectedVeoApiKey, envVars,
                  mount, reads, dialogs, job, calls, ended >>

\* The awaited generateStyledImage call of style batch.i settles: the entry is
\* updated, a failure is logged, and the loop runs on to the next await or ends.
RestyleSettles ==
  /\ batch.pc = "await"
  /\ \E response \in RestyleResponses(batch.image) :
     LET style == Catalog[batch.i]
         result == generateStyledImage(response)
         images == SetImageUrl(generatedImages, style,
                               IF result.ok THEN result.value ELSE "error")
         err == IF result.ok THEN error ELSE AppendError(error, style, result.message)
         outcome == Outcome(batch.i, result, response)
     IN LoopState(Iterate(batch.i + 1, images, err, << outcome >>, batch.fileName),
                  batch.image, batch.fileName)
  /\ UNCHANGED << uploadedImage, uploadedFileName, videoPrompt, generatedVideo,
                  generatingVideo, videoError, hasSelectedVeoApiKey, envVars,
                  mount, reads, dialogs, job, calls, ended >>

\* ------------------------------------------------------ video controls
Prompts == {"", "spin the logo"}

\* The prompt textarea: disabled={generatingVideo}.
SetVideoPrompt(p) ==
  /\ mount # "start"
  /\ ~generatingVideo
  /\ p # videoPrompt
  /\ videoPrompt' = p
  /\ UNCHANGED << uploadedImage, uploadedFileName, generating, generatedImages,
                  error, generatedVideo, generatingVideo, videoError,
                  hasSelectedVeoApiKey, envVars, mount, reads, dialogs, batch,
                  job, settled, calls, ended >>

\* ------------------------------------------------ handleSelectVeoApiKey
SelectionUnavailable ==
  Str(<< "API key selection is not available in this environment. Ensure API_KEY is set manually." >>)
SelectionFailed == Str(<< "Failed to open API key selection. Please try again." >>)

\* Where handleSelectVeoApiKey is bound: the "Select API Key for Video" button,
\* rendered while the flag is false, and the button inside a key error.
SelectKeyOffered == ~hasSelectedVeoApiKey \/ videoError.type = "jsx"

\* handleSelectVeoApiKey up to its await of openSelectKey(), or all of it when
\* the host offers no dialog.
ClickSelectKey ==
  /\ mount # "start"
  /\ SelectKeyOffered
  /\ IF "openSelectKey" \in aistudio
       THEN /\ dialogs < MaxDialogs
            /\ dialogs' = dialogs + 1
            /\ UNCHANGED << videoError, hasSelectedVeoApiKey >>
       ELSE /\ videoError' = SelectionUnavailable
            /\ hasSelectedVeoApiKey' = apiKey
            /\ UNCHANGED dialogs
  /\ UNCHANGED << uploadedImage, uploadedFileName, generating, generatedImages,
                  error, videoPrompt, generatedVideo, generatingVideo, envVars,
                  mount, reads, batch, job, settled, calls, ended >>

\* How the host's dialog can end: the user picked a key, closed the dialog
\* without picking one, or the call rejected.
DialogOutcomes == {"selected", "closed", "rejected"}

\* The flag after `await openSelectKey()` resolved.
FlagAfterDialog(hostAnswer) == TRUE

\* await window.aistudio.openSelectKey() settles.  A picked key is what the
\* host answers from then on, and the host may put it in process.env.API_KEY.
DialogSettles ==
  /\ dialogs > 0
  /\ dialogs' = dialogs - 1
  /\ \E outcome \in DialogOutcomes, injected \in BOOLEAN :
       /\ hostHasKey' = (hostHasKey \/ (outcome = "selected"
                                          /\ "hasSelectedApiKey" \in aistudio))
       /\ apiKey' = (apiKey \/ (outcome = "selected" /\ injected))
       /\ IF outcome = "rejected"
            THEN /\ videoError' = SelectionFailed
                 /\ hasSelectedVeoApiKey' = FALSE
            ELSE /\ hasSelectedVeoApiKey' = FlagAfterDialog(hostHasKey')
                 /\ videoError' = Null
  /\ UNCHANGED << uploadedImage, uploadedFileName, generating, generatedImages,
                  error, videoPrompt, generatedVideo, generatingVideo, aistudio,
                  revoked,
                  mount, reads, batch, job, settled, calls, ended >>

\* ---------------------------------------------- generateVideoFromImage
\* setTimeout(resolve, 10000) between two polls.
POLL_INTERVAL_MS == 10000

KEY_REQUIRED == << "VEO_API_KEY_REQUIRED" >>
KEY_RESET_REQUIRED == << "VEO_API_KEY_RESET_REQUIRED" >>
NoKeyNoHost ==
  << "API_KEY is not defined in environment variables. window.aistudio not available to select key." >>
NoKeyAfterSelection ==
  << "API_KEY is not defined in environment variables after selection." >>
NoDownloadLink == << "No video download link found in the response." >>

\* checkAndSelectVeoApiKey asks the host only when it offers both methods.
HostGate == "hasSelectedApiKey" \in aistudio /\ "openSelectKey" \in aistudio

\* The catch without its test for the not-found signature.
Rethrown_NoSignature(message) == << "Failed to generate video: " >> \o message

\* The catch of generateVideoFromImage: it wraps the whole try block, the
\* submit, every poll, the missing link and the download alike.
Rethrown(message) ==
  IF Includes(message, NOT_FOUND) THEN KEY_RESET_REQUIRED
  ELSE << "Failed to generate video: " >> \o message

\* One entry of the call history, and the entry of the call that just settled.
Call(op, arg) == [op |-> op, arg |-> arg, ret |-> Null]
Answered(log, ret) == [log EXCEPT ![Len(log)].ret = ret]

\* An operation object as the service returns it: seq tells the objects of one
\* job apart (0 from generateVideos, k from the k-th getVideosOperation).
VIDEO_URI == "https://generativelanguage.googleapis.com/download/video.mp4?alt=media"
Operations(seq) ==
  (IF seq < MaxPolls THEN { [seq |-> seq, done |-> FALSE, uri |-> NULL] } ELSE {})
  \cup { [seq |-> seq, done |-> TRUE, uri |-> u] : u \in {NULL, VIDEO_URI} }

\* What the download can end with: the blob, an HTTP error with a body, or a
\* network error.
FetchBodies == { << "link expired" >>, << "{message: ", NOT_FOUND, "}" >> }
FetchOutcomes ==
  { [ok |-> TRUE] }
  \cup { [ok |-> FALSE, message |-> << "Failed to fetch video from download link: ",
                                        "404", " ", "Not Found", " - " >> \o b] :
           b \in FetchBodies }
  \cup { [ok |-> FALSE, message |-> << "Failed to fetch" >>] }
\* URL.createObjectURL(videoBlob): every call yields a URL not used before.  One
\* name stands for the URL of the latest video, so creating it takes the name
\* out of revoked.
BLOB_URL == "blob:https://app/video"

\* ------------------------------------------------- handleGenerateVideo
NoImageForVideo == Str(<< "Please upload an image first to generate a video." >>)
NoKeyForVideo == Str(<< "Please select your Veo API key before generating video." >>)
KeyRequiredError ==
  Jsx(<< "A Veo API key is required. Please ", "select your API key", "." >>)
KeyInvalidError ==
  Jsx(<< "There was an issue with the selected API key. Please ",
         "select your API key again", "." >>)

\* The catch of handleGenerateVideo: the error shown, and whether the flag is reset.
VideoErrorOf(message) ==
  IF message = KEY_REQUIRED THEN KeyRequiredError
  ELSE IF message = KEY_RESET_REQUIRED THEN KeyInvalidError
  ELSE Str(<< "Failed to generate video: " >> \o message)
ResetsKey(message) == message = KEY_REQUIRED \/ message = KEY_RESET_REQUIRED

\* How the latest handleGenerateVideo invocation ended: the call whose outcome
\* ended it, the error that call raised (none for a video) and, when it ended
\* on a missing download link, the operation object that had no link.
EndedOn(by, cause, operation) ==
  [type |-> "ended", by |-> by, cause |-> cause, operation |-> operation]
Ended(by, cause) == EndedOn(by, cause, Null)

\* The try/catch/finally of handleGenerateVideo once generateVideoFromImage has
\* settled with result; how records how it came to that.
JobSettles(how, result) ==
  /\ job' = IdleJob
  /\ calls' = << >>
  /\ ended' = how
  /\ generatingVideo' = FALSE
  /\ IF result.ok
       THEN /\ generatedVideo' =
                 [ type |-> "video", prompt |-> job.prompt, videoUrl |-> result.value,
                   originalFileName |-> IF Truthy(job.fileName) THEN job.fileName
                                        ELSE "video_from_logo.mp4" ]
            /\ UNCHANGED << videoError, hasSelectedVeoApiKey >>
       ELSE /\ videoError' = VideoErrorOf(result.message)
            /\ hasSelectedVeoApiKey' =
                 IF ResetsKey(result.message) THEN FALSE ELSE hasSelectedVeoApiKey
            /\ UNCHANGED generatedVideo

JobEnds(by, cause, result) == JobSettles(Ended(by, cause), result)

\* ai.models.generateVideos is called.
SubmitIssued(running, log) ==
  /\ job' = [running EXCEPT !.pc = "submit"]
  /\ calls' = Append(log, Call("generateVideos",
                               [image |-> running.image, prompt |-> running.prompt]))

\* Polling again with the handle generateVideos returned.
PollArgument_SubmitHandle(operation) == [operation EXCEPT !.seq = 0]

\* The handle the next getVideosOperation call is given.
PollArgument(operation) == operation

\* A polling loop that gives up after the first poll.
KeepsPolling_OnePollOnly(operation) == ~operation.done /\ operation.seq < 1

\* Whether the polling loop goes round again: while (!operation.done).
KeepsPolling(operation) == ~operation.done

\* The download attempted whatever the response holds.
HasDownloadLink_Unchecked(operation) == TRUE

\* if (!downloadLink) on operation.response?.generatedVideos?.[0]?.video?.uri
HasDownloadLink(operation) == Truthy(operation.uri)

\* The code that follows an operation object returned by call `by`: the while
\* test, the download link, the fetch.
OperationContinues(by, operation, log) ==
  IF KeepsPolling(operation)
    THEN /\ job' = [job EXCEPT !.pc = "wait", !.operation = operation]
         /\ calls' = Append(log, Call("setTimeout", [ms |-> POLL_INTERVAL_MS]))
         /\ UNCHANGED << generatedVideo, generatingVideo, videoError,
                         hasSelectedVeoApiKey, ended >>
    ELSE IF ~HasDownloadLink(operation)
      THEN JobSettles(EndedOn(by, NoDownloadLink, operation),
                      Thrown(Rethrown(NoDownloadLink)))
      ELSE /\ job' = [job EXCEPT !.pc = "fetch", !.operation = operation]
           /\ calls' = Append(log, Call("fetch", [uri |-> operation.uri]))
           /\ UNCHANGED << generatedVideo, generatingVideo, videoError,
                           hasSelectedVeoApiKey, ended >>

\* handleGenerateVideo up to its first await (or to its return, when it is
\* refused or checkAndSelectVeoApiKey throws without asking the host).
handleGenerateVideo ==
  LET running == [ pc |-> "start", image |-> uploadedImage, prompt |-> videoPrompt,
                   fileName |-> uploadedFileName, operation |-> Null ]
  IN
  IF NoImage(uploadedImage)
    THEN /\ videoError' = NoImageForVideo
         /\ ended' = Ended("handleGenerateVideo", NoImageForVideo.text)
         /\ UNCHANGED << generatedVideo, generatingVideo, hasSelectedVeoApiKey,
                         job, calls >>
  ELSE IF ~hasSelectedVeoApiKey
    THEN /\ videoError' = NoKeyForVideo
         /\ ended' = Ended("handleGenerateVideo", NoKeyForVideo.text)
         /\ UNCHANGED << generatedVideo, generatingVideo, hasSelectedVeoApiKey,
                         job, calls >>
  ELSE IF HostGate
    THEN /\ generatingVideo' = TRUE
         /\ videoError' = Null
         /\ generatedVideo' = Null
         /\ job' = [running EXCEPT !.pc = "hasKey"]
         /\ calls' = << Call("hasSelectedApiKey", Null) >>
         /\ ended' = Null
         /\ UNCHANGED hasSelectedVeoApiKey
  ELSE IF ~apiKey
    THEN /\ generatingVideo' = FALSE
         /\ videoError' = VideoErrorOf(NoKeyNoHost)
         /\ generatedVideo' = Null
         /\ hasSelectedVeoApiKey' =
              IF ResetsKey(NoKeyNoHost) THEN FALSE ELSE hasSelectedVeoApiKey
         /\ ended' = Ended("checkAndSelectVeoApiKey", NoKeyNoHost)
         /\ UNCHANGED << job, calls >>
  ELSE /\ generatingVideo' = TRUE
       /\ videoError' = Null
       /\ generatedVideo' = Null
       /\ SubmitIssued(running, << >>)
       /\ ended' = Null
       /\ UNCHANGED hasSelectedVeoApiKey

\* The button that stays enabled while a job runs.
VideoButtonDisabled_NotWhileGenerating == ~Truthy(uploadedImage) \/ videoPrompt = ""

\* disabled={!uploadedImage || !videoPrompt || generatingVideo}
VideoButtonDisabled == ~Truthy(uploadedImage) \/ videoPrompt = "" \/ generatingVideo

\* A button that only asks for an image and no job running.
ClickGenerateVideo_AnyPrompt ==
  /\ mount # "start"
  /\ hasSelectedVeoApiKey
  /\ Truthy(uploadedImage) /\ ~generatingVideo
  /\ handleGenerateVideo
  /\ UNCHANGED << uploadedImage, uploadedFileName, generating, generatedImages,
                  error, videoPrompt, envVars, mount, reads, dialogs, batch,
                  settled >>

\* The "Generate Video" button: rendered while the flag is true.
ClickGenerateVideo ==
  /\ mount # "start"
  /\ hasSelectedVeoApiKey
  /\ ~VideoButtonDisabled
  /\ handleGenerateVideo
  /\ UNCHANGED << uploadedImage, uploadedFileName, generating, generatedImages,
                  error, videoPrompt, envVars, mount, reads, dialogs, batch,
                  settled >>

\* The check of the host's answer left out.
HostRefuses_Never(hasKey) == FALSE

\* if (!hasKey) throw new Error('VEO_API_KEY_REQUIRED')
HostRefuses(hasKey) == ~hasKey

\* await window.aistudio.hasSelectedApiKey() of checkAndSelectVeoApiKey settles.
HasKeySettles ==
  /\ job.pc = "hasKey"
  /\ LET hasKey == hostHasKey
         log == Answered(calls, [type |-> "boolean", value |-> hasKey])
     IN IF HostRefuses(hasKey)
          THEN JobEnds("hasSelectedApiKey", KEY_REQUIRED, Thrown(KEY_REQUIRED))
        ELSE IF ~apiKey
          THEN JobEnds("checkAndSelectVeoApiKey", NoKeyAfterSelection,
                       Thrown(NoKeyAfterSelection))
        ELSE /\ SubmitIssued(job, log)
             /\ UNCHANGED << generatedVideo, generatingVideo, videoError,
                             hasSelectedVeoApiKey, ended >>
  /\ UNCHANGED << uploadedImage, uploadedFileName, generating, generatedImages,
                  error, videoPrompt, envVars, mount, reads, dialogs, batch,
                  settled >>

\* await ai.models.generateVideos(...) settles.
SubmitSettles ==
  /\ job.pc = "submit"
  /\ \/ \E m \in RemoteMessages :
          JobEnds("generateVideos", m, Thrown(Rethrown(m)))
     \/ \E operation \in Operations(0) :
          OperationContinues("generateVideos", operation, Answered(calls, operation))
  /\ UNCHANGED << uploadedImage, uploadedFileName, generating, generatedImages,
                  error, videoPrompt, envVars, mount, reads, dialogs, batch,
                  settled >>

\* The 10 second timer fires and getVideosOperation is called.
TimerFires ==
  /\ job.pc = "wait"
  /\ job' = [job EXCEPT !.pc = "poll"]
  /\ calls' = Append(Answered(calls, [type |-> "elapsed"]),
                     Call("getVideosOperation", PollArgument(job.operation)))
  /\ UNCHANGED << uploadedImage, uploadedFileName, generating, generatedImages,
                  error, videoPrompt, generatedVideo, generatingVideo, videoError,
                  hasSelectedVeoApiKey, envVars, mount, reads, dialogs, batch,
                  settled, ended >>

\* await ai.operations.getVideosOperation(...) settles.
PollSettles ==
  /\ job.pc = "poll"
  /\ \/ \E m \in RemoteMessages :
          JobEnds("getVideosOperation", m, Thrown(Rethrown(m)))
     \/ \E operation \in Operations(job.operation.seq + 1) :
          OperationContinues("getVideosOperation", operation,
                             Answered(calls, operation))
  /\ UNCHANGED << uploadedImage, uploadedFileName, generating, generatedImages,
                  error, videoPrompt, envVars, mount, reads, dialogs, batch,
                  settled >>

\* The download settles: fetch, then response.text() or response.blob().
FetchSettles ==
  /\ job.pc = "fetch"
  /\ \E outcome \in FetchOutcomes :
       IF outcome.ok
         THEN /\ JobEnds("fetch", << >>, Returned(BLOB_URL))
              /\ revoked' = revoked \ {BLOB_URL}
         ELSE /\ JobEnds("fetch", outcome.message, Thrown(Rethrown(outcome.message)))
              /\ UNCHANGED revoked
  /\ UNCHANGED << uploadedImage, uploadedFileName, generating, generatedImages,
                  error, videoPrompt, aistudio, apiKey, hostHasKey, mount, reads,
                  dialogs, batch, settled >>

\* handleVideoDownload, the "Download Video" button of the video panel (rendered
\* while generatedVideo is set): a temporary link is clicked and the object URL
\* is revoked.
handleVideoDownload ==
  /\ mount # "start"
  /\ generatedVideo # Null
  /\ Truthy(generatedVideo.videoUrl)
  /\ revoked' = revoked \cup {generatedVideo.videoUrl}
  /\ UNCHANGED << appVars, aistudio, apiKey, hostHasKey, mount, reads, dialogs,
                  batch, job, settled, calls, ended >>

\* The "Generate Video" call when the button does not offer it.
CallGenerateVideo ==
  /\ mount # "start"
  /\ ~generatingVideo
  /\ ~(hasSelectedVeoApiKey /\ Truthy(uploadedImage) /\ videoPrompt # "")
  /\ handleGenerateVideo
  /\ UNCHANGED << uploadedImage, uploadedFileName, generating, generatedImages,
                  error, videoPrompt, envVars, mount, reads, dialogs, batch,
                  settled >>

\* The generateVariations call when the button does not offer it.
CallGenerateVariations ==
  /\ mount # "start"
  /\ ~generating
  /\ ~Truthy(uploadedImage)
  /\ generateVariations
  /\ UNCHANGED << uploadedImage, uploadedFileName, videoPrompt, generatedVideo,
                  generatingVideo, videoError, hasSelectedVeoApiKey, envVars,
                  mount, reads, dialogs, job, calls, ended >>

Next ==
  \/ CheckKeyEffect
  \/ CheckKeyResolve
  \/ \E f \in Files : HandleFileChange(f)
  \/ \E f \in Files : ReaderLoadEnd(f)
  \/ HandleRemoveImage
  \/ ClickGenerateVariations
  \/ RestyleSettles
  \/ \E p \in Prompts : SetVideoPrompt(p)
  \/ ClickSelectKey
  \/ DialogSettles
  \/ ClickGenerateVideo
  \/ HasKeySettles
  \/ SubmitSettles
  \/ TimerFires
  \/ PollSettles
  \/ FetchSettles

\* The application as the user drives it.
Spec == Init /\ [][Next]_vars

\* The handlers as functions: the application, and generateVariations and
\* handleGenerateVideo also called where their buttons are disabled or not
\* rendered (one activation of each at a time).
NextDirect ==
  \/ Next
  \/ CallGenerateVideo
  \/ CallGenerateVariations

SpecDirect == Init /\ [][NextDirect]_vars

\* The UI with the download button of the video panel as well.  The download
\* changes nothing but revoked, which no other handler reads, so Spec leaves it
\* out and keeps revoked empty.
NextDownload == Next \/ handleVideoDownload
SpecDownload == Init /\ [][NextDownload]_vars

\* Every call a video job awaits settles and every timer fires: the host's
\* answer, generateVideos, the 10 second timer, getVideosOperation, the download.
SpecLive ==
  /\ Spec
  /\ WF_vars(HasKeySettles) /\ WF_vars(SubmitSettles) /\ WF_vars(TimerFires)
  /\ WF_vars(PollSettles) /\ WF_vars(FetchSettles)

\* Every generateContent call a batch awaits settles: weak fairness of
\* RestyleSettles, which is enabled exactly while batch.pc = "await".
SpecBatchLive ==
  /\ Spec
  /\ []<>(batch.pc # "await") \/ []<><<RestyleSettles>>_vars

\* ============================================================ properties
Pending(img) == img.imageUrl = ""
Failed(img) == img.imageUrl = "error"
Ready(img) == ~Pending(img) /\ ~Failed(img)

\* A step in which a generateVariations activation returns: its last awaited
\* call settles, or the whole loop ran in the task that started it.
BatchFinishes ==
  /\ batch'.pc = "idle"
  /\ \/ batch.pc = "await"
     \/ generatedImages' # << >> /\ generatedImages' # generatedImages

\* One terminal entry per catalog style, in catalog order.
FullTerminalBatch(images) ==
  /\ Len(images) = Len(Catalog)
  /\ \A k \in 1..Len(images) :
       images[k].style = Catalog[k] /\ ~Pending(images[k])

\* C1: when a generateVariations run that was started with an image has
\* finished, generatedImages holds exactly one entry per catalog style, in
\* catalog order, each Ready or Failed and none Pending.
C1_BatchYieldsOneTerminalEntryPerStyle ==
  [][BatchFinishes => FullTerminalBatch(generatedImages')]_vars

\* C2: failure isolation.  When the call of style i settles, the entry of
\* style i is Ready if the call returned and Failed if it threw, every other
\* entry is left as it was, and the loop goes on to style i + 1 (or ends after
\* the last style).
C2_FailureIsolation ==
  [][ batch.pc = "await" /\ batch' # batch =>
        LET o == settled'[1]
            style == Catalog[batch.i] IN
        /\ o.i = batch.i
        /\ \E k \in 1..Len(generatedImages') :
             /\ generatedImages'[k].style = style
             /\ IF o.ok THEN Ready(generatedImages'[k])
                ELSE Failed(generatedImages'[k])
        /\ \A k \in 1..Len(generatedImages) :
             generatedImages[k].style # style
             => generatedImages'[k] = generatedImages[k]
        /\ IF batch.i < Len(Catalog)
             THEN batch'.pc = "await" /\ batch'.i = batch.i + 1
             ELSE batch' = IdleBatch
    ]_vars

\* C3: credential gating.  A handleGenerateVideo call made with an image loaded
\* while hasSelectedVeoApiKey is false shows the select-your-key error and
\* starts nothing; a job whose hasSelectedApiKey() question the host answers
\* with false ends with the key-required error and the flag reset; and
\* generateVideos is only ever issued by a job that began with the flag true
\* and, where the host is asked, was answered true.
SubmitsIn(log) == { k \in 1..Len(log) : log[k].op = "generateVideos" }

IsOperationCall(c) == c.op \in {"generateVideos", "getVideosOperation"}
PollsIn(log) == { k \in 1..Len(log) : log[k].op = "getVideosOperation" }
WaitsIn(log) == { k \in 1..Len(log) : log[k].op = "setTimeout" }
FetchesIn(log) == { k \in 1..Len(log) : log[k].op = "fetch" }

\* The call history of a job follows "wait 10 s, then poll once, while the
\* handle is not done": every poll comes right after one 10 second wait, every
\* wait right after a call that returned a not-done handle, nothing but the
\* one fetch follows a done handle, and the fetch is the last call.
PollingProtocol(log) ==
  /\ \A k \in PollsIn(log) :
       /\ k > 2
       /\ log[k - 1].op = "setTimeout" /\ log[k - 1].arg.ms = 10000
  /\ \A k \in WaitsIn(log) :
       /\ k > 1
       /\ IsOperationCall(log[k - 1])
       /\ log[k - 1].ret # Null /\ ~log[k - 1].ret.done
       /\ k < Len(log) => log[k + 1].op = "getVideosOperation"
  /\ \A k \in 1..Len(log) :
       IsOperationCall(log[k]) /\ log[k].ret # Null /\ log[k].ret.done
       => /\ k >= Len(log) - 1
          /\ k < Len(log) => log[k + 1].op = "fetch"
  /\ Cardinality(PollsIn(log)) = Cardinality(WaitsIn(log))
       - (IF log # << >> /\ log[Len(log)].op = "setTimeout" THEN 1 ELSE 0)
  /\ Cardinality(FetchesIn(log)) <= 1
  /\ \A k \in FetchesIn(log) :
       /\ k = Len(log) /\ k > 1
       /\ IsOperationCall(log[k - 1])
       /\ log[k - 1].ret.done /\ log[k].arg.uri = log[k - 1].ret.uri

\* C4: polling protocol.  While a job runs its calls follow the protocol above
\* (k polls and k waits when the k-th poll is the first to report done, none
\* when generateVideos already reports done, at most one fetch), and the step
\* in which the fetch succeeds leaves the job Ready: the artifact set, no
\* error shown, generatingVideo false.
C4_PollingProtocol ==
  [][ /\ PollingProtocol(calls')
      /\ ( job.pc = "fetch" /\ job'.pc = "idle" /\ ended'.cause = << >>
           => /\ generatedVideo' # Null /\ generatedVideo'.videoUrl = BLOB_URL
              /\ videoError' = Null
              /\ ~generatingVideo' )
    ]_vars

\* ---------------------------------------------------------------- C5
\* A step in which generateVideos or getVideosOperation rejects.
RemoteCallFails ==
  /\ job.pc \in {"submit", "poll"}
  /\ job'.pc = "idle"
  /\ ended'.cause \in RemoteMessages

\* text ends with message.
EndsWith(text, message) ==
  /\ Len(text) >= Len(message)
  /\ SubSeq(text, Len(text) - Len(message) + 1, Len(text)) = message

\* C5: a rejected generateVideos or getVideosOperation call whose message
\* holds 'Requested entity was not found.' ends the job with the key-invalid
\* error (reselect action, flag reset); with any other message it ends the job
\* with a plain text error that starts 'Failed to generate video: ' and ends
\* with the message, and the flag is left alone.
C5_SubmitPollErrorClassification ==
  [][ RemoteCallFails =>
        /\ ~generatingVideo' /\ generatedVideo' = generatedVideo
        /\ IF Includes(ended'.cause, NOT_FOUND)
             THEN videoError' = KeyInvalidError /\ ~hasSelectedVeoApiKey'
             ELSE /\ videoError'.type = "string"
                  /\ videoError'.text[1] = "Failed to generate video: "
                  /\ EndsWith(videoError'.text, ended'.cause)
                  /\ hasSelectedVeoApiKey' = hasSelectedVeoApiKey
    ]_vars

\* A poll was refused with the not-found signature and the key error is shown.
C5_PollRefusedKeyInvalid ==
  /\ ended.type = "ended" /\ ended.by = "getVideosOperation"
  /\ Includes(ended.cause, NOT_FOUND)
  /\ videoError = KeyInvalidError
  /\ ~hasSelectedVeoApiKey /\ ~generatingVideo

\* ---------------------------------------------------------------- C6
\* C6: a failed download (HTTP error or network error) always ends the job
\* with a plain transport error, whatever the status and body, never with the
\* key-invalid error, and never changes the credential flag.
C6_FetchFailureIsTransportError ==
  [][ job.pc = "fetch" /\ job'.pc = "idle" /\ ended'.cause # << >>
      => /\ videoError'.type = "string"
         /\ videoError' # KeyInvalidError
         /\ hasSelectedVeoApiKey' = hasSelectedVeoApiKey
    ]_vars

\* ---------------------------------------------------------------- C7
\* The lines of a text, split at its newline fragments.
RECURSIVE Lines(_)
Lines(text) ==
  LET breaks == { k \in 1..Len(text) : text[k] = "\n" } IN
  IF breaks = {} THEN << text >>
  ELSE LET k == CHOOSE b \in breaks : \A c \in breaks : b <= c
       IN << SubSeq(text, 1, k - 1) >> \o Lines(SubSeq(text, k + 1, Len(text)))

LastLine(text) == Lines(text)[Len(Lines(text))]

\* A step in which the awaited call of the style batch.i fails because
\* generateContent rejected.
RemoteRestyleFails ==
  /\ batch.pc = "await" /\ batch' # batch
  /\ ~settled'[1].ok
  /\ settled'[1].remote # << >>

\* C7 as stated: when the remote call for style S fails with message M, the
\* line added to the log is exactly 'Failed to generate S style: M'.
C7_LogLineCarriesRemoteMessage ==
  [][ RemoteRestyleFails =>
        /\ error' # Null
        /\ LastLine(error'.text) =
             << "Failed to generate ", Catalog[batch.i], " style: " >>
             \o settled'[1].remote
    ]_vars

\* C7, amended: when the call for style S fails, the line added to the log is
\* 'Failed to generate S style: ' followed by the message of the error that
\* generateStyledImage threw, unmodified; for a remote failure with message M
\* that message is 'Failed to generate image: M'.
C7_LogLineCarriesThrownMessage ==
  [][ /\ ( batch.pc = "await" /\ batch' # batch /\ ~settled'[1].ok
           => LET outcome == settled'[1] IN
              /\ error' # Null
              /\ LastLine(error'.text) =
                   << "Failed to generate ", Catalog[batch.i], " style: " >>
                   \o outcome.message
              /\ outcome.remote # << >>
                 => outcome.message =
                      << "Failed to generate image: " >> \o outcome.remote )
      /\ ( batch.pc = "idle" /\ BatchFinishes
           => /\ error' # Null
              /\ Len(Lines(error'.text)) = Len(settled')
              /\ \A k \in 1..Len(settled') :
                   Lines(error'.text)[k] =
                     << "Failed to generate ", Catalog[settled'[k].i], " style: " >>
                     \o settled'[k].message )
    ]_vars

\* The second style's call was rejected by the service and its line is the
\* last of the log.
C7_RemoteFailureLogged ==
  /\ batch = IdleBatch /\ settled # << >>
  /\ settled[1].i = 2 /\ settled[1].remote # << >>
  /\ error # Null
  /\ LastLine(error.text) =
       << "Failed to generate ", Catalog[2], " style: ", "Failed to generate image: " >>
       \o settled[1].remote

\* ---------------------------------------------------------------- C8
\* The styles the log's lines name, in order.
LoggedStyles(err) ==
  IF err = Null THEN << >>
  ELSE [ k \in 1..Len(Lines(err.text)) |-> Lines(err.text)[k][2] ]

FailedStyles(images) ==
  LET failed == SelectSeq(images, Failed) IN
  [ k \in 1..Len(failed) |-> failed[k].style ]

\* C8: when a batch finishes the log holds one line per Failed style and none
\* for a Ready style, in catalog order, newline separated, and is null when no
\* style failed; no line of an earlier batch is left.
C8_LogMatchesFailedStyles ==
  [][ BatchFinishes =>
        /\ LoggedStyles(error') = FailedStyles(generatedImages')
        /\ error' # Null =>
             \A k \in 1..Len(Lines(error'.text)) :
               /\ Len(Lines(error'.text)[k]) > 3
               /\ Lines(error'.text)[k][1] = "Failed to generate "
               /\ Lines(error'.text)[k][3] = " style: "
    ]_vars

\* ---------------------------------------------------------------- C9
\* Within a running batch no terminal entry changes: an entry that is Ready or
\* Failed and still listed after the step has the image URL it had.
TerminalEntriesKept ==
  batch.pc = "await"
  => \A k \in 1..Len(generatedImages), j \in 1..Len(generatedImages') :
       ~Pending(generatedImages[k])
         /\ generatedImages'[j].style = generatedImages[k].style
       => generatedImages'[j] = generatedImages[k]

\* The steps that may replace the outcome of an ended video job: an upload or
\* removal of the image, and a new handleGenerateVideo run (one that starts a
\* job, or one that fails before its first call).
UploadStep == uploadedImage' # uploadedImage \/ (reads' # reads /\ reads' \subseteq reads)
NewJobStep ==
  \/ ended' # ended
  \/ /\ hasSelectedVeoApiKey /\ Truthy(uploadedImage) /\ videoPrompt # ""
     /\ ~HostGate /\ ~apiKey
     /\ videoError' = VideoErrorOf(NoKeyNoHost)
\* A step of handleSelectVeoApiKey that writes videoError.
SelectionStep ==
  \/ dialogs' < dialogs
  \/ "openSelectKey" \notin aistudio /\ SelectKeyOffered
     /\ videoError' = SelectionUnavailable

\* A step taken after the latest job has ended, which neither uploads nor
\* runs handleGenerateVideo anew.
AfterJobEnded ==
  /\ job.pc = "idle" /\ ended # Null
  /\ ~UploadStep /\ ~NewJobStep

\* C9 as stated: no terminal image entry changes within a batch, and once a
\* video job is Ready or Failed its artifact and its error stay as they are
\* until a new job or a new upload replaces them.
C9_TerminalStatesKept ==
  [][ /\ TerminalEntriesKept
      /\ AfterJobEnded
         => /\ job'.pc = "idle"
            /\ generatedVideo' = generatedVideo
            /\ videoError' = videoError
    ]_vars

\* C9, amended: no terminal image entry changes within a batch; once a video
\* job is Ready or Failed it does not resume and its artifact stays until a
\* new job or a new upload replaces it, while its error stays until a new job,
\* a new upload or a credential selection (handleSelectVeoApiKey) replaces or
\* clears it.
C9_TerminalStatesKeptUntilSelection ==
  [][ /\ TerminalEntriesKept
      /\ AfterJobEnded
         => /\ job'.pc = "idle"
            /\ generatedVideo' = generatedVideo
            /\ videoError' # videoError => SelectionStep
    ]_vars

\* A batch past its first style with that style's entry terminal, beside a
\* video job that has ended Ready.
C9_TerminalEntryAndEndedJob ==
  /\ batch.pc = "await" /\ batch.i = 2
  /\ Len(generatedImages) = 2 /\ ~Pending(generatedImages[1])
  /\ job.pc = "idle" /\ ended # Null /\ generatedVideo # Null

\* ---------------------------------------------------------------- C10
\* The handle the service returned last before call k of the log.
RECURSIVE LastHandle(_, _)
LastHandle(log, k) ==
  IF k = 0 THEN Null
  ELSE IF IsOperationCall(log[k]) THEN log[k].ret
  ELSE LastHandle(log, k - 1)

\* C10: handle threading.  A job's log never holds more than one
\* generateVideos call, it comes before every poll, and each getVideosOperation
\* call is passed the handle the call before it returned: the submit's handle
\* for the first poll, the previous poll's response for every later one.
C10_HandleThreading ==
  /\ Cardinality(SubmitsIn(calls)) <= 1
  /\ \A k \in PollsIn(calls) :
       /\ SubmitsIn(calls) # {} /\ \A s \in SubmitsIn(calls) : s < k
       /\ LastHandle(calls, k - 1) # Null
       /\ calls[k].arg = LastHandle(calls, k - 1)

\* The second poll of a job has been issued.
C10_SecondPollIssued ==
  /\ Cardinality(PollsIn(calls)) = 2
  /\ job.pc = "poll"

\* ---------------------------------------------------------------- C11
\* C11: at most one video job is in flight.  generatingVideo is true exactly
\* while a handleGenerateVideo activation is awaiting; no step replaces a
\* running activation by another (a running job only moves on with its own
\* image and prompt and a log that grows, or ends); and the step that starts a
\* job leaves generatedVideo and videoError null with nothing in the log but
\* the job's first call, not yet answered.
C11_OneVideoJobInFlight ==
  [][ /\ generatingVideo' = (job'.pc # "idle")
      /\ ( job.pc # "idle" /\ job' # job
           => \/ job'.pc = "idle"
              \/ /\ job'.image = job.image /\ job'.prompt = job.prompt
                 /\ Len(calls') >= Len(calls)
                 /\ \A k \in 1..Len(calls) : calls'[k].op = calls[k].op )
      /\ ( job.pc = "idle" /\ job'.pc # "idle"
           => /\ ~generatingVideo
              /\ generatedVideo' = Null /\ videoError' = Null
              /\ Len(calls') = 1 /\ calls'[1].ret = Null
              /\ calls'[1].op \in {"hasSelectedApiKey", "generateVideos"} )
    ]_vars

\* A job waits between two polls: the flag is up, no result is shown, the
\* Generate Video button is disabled.
C11_JobInFlight ==
  /\ job.pc = "wait" /\ generatingVideo /\ VideoButtonDisabled
  /\ generatedVideo = Null /\ videoError = Null
  /\ Cardinality(PollsIn(calls)) = 1

\* ---------------------------------------------------------------- C12
\* The no-artifact error as the user sees it.
NoArtifactError ==
  Str(<< "Failed to generate video: ", "Failed to generate video: ",
         "No video download link found in the response." >>)

\* C12: an operation that reports done without a download link ends the job
\* in the step that receives it, with the no-artifact error, and fetch is never
\* called for it: no running job's log holds a done operation without a link,
\* every fetch is for the link of the done operation before it, and the step
\* that ends on the missing link shows the no-artifact error with no fetch in
\* the job's log.
C12_NoLinkNoFetch ==
  [][ /\ \A k \in 1..Len(calls') :
           IsOperationCall(calls'[k]) /\ calls'[k].ret # Null /\ calls'[k].ret.done
           => Truthy(calls'[k].ret.uri)
      /\ \A k \in FetchesIn(calls') :
           Truthy(calls'[k].arg.uri) /\ calls'[k].arg.uri = calls'[k - 1].ret.uri
      /\ ( job.pc # "idle" /\ job'.pc = "idle" /\ ended'.cause = NoDownloadLink
           => /\ job.pc \in {"submit", "poll"}
              /\ FetchesIn(calls) = {}
              /\ videoError' = NoArtifactError
              /\ generatedVideo' = generatedVideo
              /\ ~generatingVideo'
              /\ hasSelectedVeoApiKey' = hasSelectedVeoApiKey )
    ]_vars

\* A poll reported done without a link and the job ended on it.
C12_EndedWithoutLink ==
  /\ ended # Null
  /\ ended.by = "getVideosOperation" /\ ended.cause = NoDownloadLink
  /\ videoError = NoArtifactError
  /\ job = IdleJob /\ ~generatingVideo /\ generatedVideo = Null

\* ---------------------------------------------------------------- C13
\* A step of the generateVariations loop: an awaited call settles, or the loop
\* runs through in the task that started it.
LoopStep == (batch.pc = "await" /\ batch' # batch) \/ (batch.pc = "idle" /\ BatchFinishes)

\* A step in which a handleGenerateVideo activation returns on an error.
VideoJobFails ==
  /\ job'.pc = "idle" /\ ended' # Null /\ ended'.cause # << >>
  /\ job.pc # "idle" \/ ended' # ended

\* C13: no error escapes an orchestrator.  Whatever call fails, the video job
\* ends with videoError set, no video and generatingVideo false, and a style
\* whose call fails (or finds no API key) has its entry Failed and a line in the
\* error log; generating and generatingVideo are true only while a batch or a
\* job is running.
C13_ErrorsEndInFailedState ==
  [][ /\ ( VideoJobFails
           => videoError' # Null /\ generatedVideo' = Null /\ ~generatingVideo' )
      /\ ( LoopStep
           => \A n \in 1..Len(settled') :
                ~settled'[n].ok
                => /\ error' # Null
                   /\ \E k \in 1..Len(generatedImages') :
                        /\ generatedImages'[k].style = Catalog[settled'[n].i]
                        /\ Failed(generatedImages'[k]) )
      /\ generating' = (batch'.pc # "idle")
      /\ generatingVideo' = (job'.pc # "idle")
    ]_vars

\* ---------------------------------------------------------------- C14
SomePending(images) == \E k \in 1..Len(images) : Pending(images[k])

\* C14: generating is true whenever an entry is Pending or the running batch
\* has styles left, and false only when every entry is terminal; a batch starts
\* only with the flag false and an image loaded, and a running loop is never
\* restarted: it moves from style i to style i + 1 on the image it began with,
\* or ends after the last style.
C14_GeneratingCoversTheBatch ==
  [][ /\ (SomePending(generatedImages') \/ batch'.pc # "idle") => generating'
      /\ ~generating' => ~SomePending(generatedImages')
      /\ ( batch.pc = "idle" /\ (batch'.pc = "await" \/ BatchFinishes)
           => ~generating /\ Truthy(uploadedImage) )
      /\ ( batch.pc = "await" /\ batch' # batch
           => \/ batch' = IdleBatch /\ batch.i = Len(Catalog)
              \/ /\ batch'.pc = "await" /\ batch'.i = batch.i + 1
                 /\ batch'.image = batch.image )
    ]_vars

\* The second style of a batch is awaited: its entry is Pending, the flag is
\* up, the button is disabled.
C14_SecondStylePending ==
  /\ batch.pc = "await" /\ batch.i = 2
  /\ Len(generatedImages) = 2 /\ Pending(generatedImages[2])
  /\ generating /\ VariationsButtonDisabled

\* ---------------------------------------------------------------- C15
PleaseUploadFirst == Str(<< "Please upload an image first." >>)

\* With no image loaded, a step that newly shows the image validation error
\* of generateVariations, resp. of handleGenerateVideo.
VariationsRejected ==
  /\ ~Truthy(uploadedImage) /\ error' # error /\ error' # Null
VideoRejected ==
  /\ ~Truthy(uploadedImage)
  /\ ended' # ended \/ (videoError' = NoImageForVideo /\ videoError # NoImageForVideo)

\* C15: validation rejection has no side effects.  With no image loaded (null
\* or '') no step starts a batch or a job or issues a call; generateVariations
\* only sets 'Please upload an image first.' and handleGenerateVideo only sets
\* its own validation error: the flags, the results, the other handler's
\* state and error, and the credential flag stay as they were.
C15_RejectionHasNoSideEffects ==
  [][ /\ ( ~Truthy(uploadedImage)
           => /\ batch' = IdleBatch /\ job' = IdleJob /\ calls' = << >>
              /\ ~generating' /\ ~generatingVideo' )
      /\ ( VariationsRejected
           => /\ error' = PleaseUploadFirst
              /\ UNCHANGED << uploadedImage, generatedImages, generatedVideo,
                              videoError, hasSelectedVeoApiKey, ended >> )
      /\ ( VideoRejected
           => /\ videoError' = NoImageForVideo
              /\ UNCHANGED << uploadedImage, generatedImages, error,
                              generatedVideo, hasSelectedVeoApiKey >> )
    ]_vars

\* Both handlers were called after the image was removed; the credential flag
\* is still up.
C15_BothRejected ==
  /\ uploadedImage = ""
  /\ error = PleaseUploadFirst /\ videoError = NoImageForVideo
  /\ hasSelectedVeoApiKey
  /\ ~generating /\ ~generatingVideo /\ generatedImages = << >>

\* ---------------------------------------------------------------- C16
\* What re-evaluating "is a credential selected" answers: the host's answer
\* where it offers hasSelectedApiKey, otherwise whether API_KEY is set.
CredentialSelected ==
  IF "hasSelectedApiKey" \in aistudio THEN hostHasKey ELSE apiKey

\* A step in which an awaited openSelectKey() resolves.
DialogResolves == dialogs' < dialogs /\ videoError' # SelectionFailed

\* C16: after the host's selection dialog completes, hasSelectedVeoApiKey is
\* what re-evaluating the credential check answers, so it is false when the
\* user closed the dialog without selecting a key.
C16_FlagReevaluatedAfterDialog ==
  [][ DialogResolves => hasSelectedVeoApiKey' = CredentialSelected' ]_vars

\* ---------------------------------------------------------------- C17
CheckAvailable == "hasSelectedApiKey" \in aistudio
DialogAvailable == "openSelectKey" \in aistudio

\* What the gate of a video job decides on: the host's answer where it asks
\* the host, otherwise whether API_KEY is set.
GateDecision == IF HostGate THEN hostHasKey ELSE apiKey

\* C17: Key Gate fallback.  Where the host offers no credential check the
\* credential counts as usable iff API_KEY is set: that is the flag after
\* startup, the flag after a selection request that finds no dialog (which
\* reports that selection is unavailable), and what lets a video job past the
\* gate; and for every combination of host capabilities the flag the UI gets
\* at startup is the decision the gate of a video job takes.
C17_KeyGateFallback ==
  [][ /\ ( mount # "done" /\ mount' = "done"
           => /\ ~CheckAvailable => hasSelectedVeoApiKey' = apiKey
              /\ hasSelectedVeoApiKey' = GateDecision )
      /\ ( ~CheckAvailable /\ ~DialogAvailable /\ videoError' # videoError
             /\ job.pc = "idle" /\ ended' = ended
           => videoError' \in {SelectionUnavailable, Null}
              /\ (videoError' = SelectionUnavailable => hasSelectedVeoApiKey' = apiKey) )
      /\ ( ~CheckAvailable /\ job.pc = "idle" /\ job'.pc # "idle"
           => apiKey /\ job'.pc = "submit" )
      /\ ( ~CheckAvailable /\ job.pc = "idle" /\ ended' # ended /\ ended' # Null
             /\ ended'.by = "checkAndSelectVeoApiKey"
           => ~apiKey /\ ended'.cause = NoKeyNoHost )
    ]_vars

\* ---------------------------------------------------------------- C18
\* A step in which a started video job fails (the requests rejected by the
\* validations of handleGenerateVideo start no job).
StartedJobFails == VideoJobFails /\ ended'.by # "handleGenerateVideo"

\* The failure that ended the job is key-related: the host answered that no
\* key is selected, or generateVideos / getVideosOperation was refused with
\* the not-found signature.
KeyRelatedFailure(e) ==
  \/ e.by = "hasSelectedApiKey" /\ e.cause = KEY_REQUIRED
  \/ e.by \in {"generateVideos", "getVideosOperation"} /\ Includes(e.cause, NOT_FOUND)

\* C18: the reselect path is opened only by key-related failures.  A job that
\* fails with KeyRequired or KeyInvalid leaves the flag false and an error
\* that carries the select action; a job that fails in any other way (service
\* or transport error, missing download link, failed download) leaves the flag
\* as it was and a plain text error without the action.
C18_ReselectOnlyForKeyFailures ==
  [][ StartedJobFails =>
        IF KeyRelatedFailure(ended')
          THEN /\ ~hasSelectedVeoApiKey'
               /\ videoError'.type = "jsx"
               /\ videoError'.onClick = "handleSelectVeoApiKey"
               /\ SelectKeyOffered'
          ELSE /\ hasSelectedVeoApiKey' = hasSelectedVeoApiKey
               /\ videoError'.type = "string"
    ]_vars

\* ---------------------------------------------------------------- C19
\* A step in which generateVariations passes its validation and enters the loop.
BatchStarts ==
  /\ batch.pc = "idle" /\ ~UploadStep
  /\ batch'.pc = "await" \/ generatedImages' # generatedImages

\* C19: an upload and the start of a batch replace prior results wholesale.
\* Right after handleImageUpload (a picked file or the removal of the image)
\* there are no image results, no video and neither error; right after a batch
\* starts the results hold only entries of this batch, one per style reached,
\* in catalog order, and the log only lines of this batch: with an API key
\* that is the first placeholder alone and no log.
C19_ResultsReplacedWholesale ==
  [][ /\ ( UploadStep
           => /\ generatedImages' = << >> /\ generatedVideo' = Null
              /\ error' = Null /\ videoError' = Null )
      /\ ( BatchStarts
           => /\ Len(generatedImages') \in 1..Len(Catalog)
              /\ \A k \in 1..Len(generatedImages') :
                   generatedImages'[k].style = Catalog[k]
              /\ LoggedStyles(error') = FailedStyles(generatedImages')
              /\ apiKey => /\ generatedImages' =
                                << placeholderImage(Catalog[1], uploadedFileName) >>
                           /\ error' = Null )
    ]_vars

\* The latest video job delivered a video, an upload has since cleared it, and
\* the batch started after that upload holds its first placeholder alone.
C19_ClearedThenFreshBatch ==
  /\ ended = Ended("fetch", << >>) /\ job.pc = "idle"
  /\ generatedVideo = Null /\ videoError = Null /\ error = Null
  /\ batch.pc = "await" /\ batch.i = 1
  /\ Len(generatedImages) = 1 /\ Pending(generatedImages[1])

\* ---------------------------------------------------------------- C20
\* The part carries an inline image payload.
HasImagePayload(part) ==
  /\ part.inlineData # Null
  /\ part.inlineData.mimeType # "" /\ part.inlineData.data # ""

NoImageData == << "Failed to generate image: ", "No image data found in the response." >>

\* C20: the result of generateStyledImage against the response it got.  For
\* every response generateContent resolved with: if any part carries an inline
\* image payload the call returned the data URL of the first such payload, and
\* the call threw the no-image-data error exactly if no part carries one.
C20_FirstImagePayloadReturned ==
  \A k \in 1..Len(settled) :
    settled[k].resolved =>
      LET payloads == SelectSeq(settled[k].parts, HasImagePayload) IN
      /\ payloads # << >> =>
           /\ settled[k].ok
           /\ settled[k].value = "data:" \o payloads[1].inlineData.mimeType
                                   \o ";base64," \o payloads[1].inlineData.data
      /\ (~settled[k].ok /\ settled[k].message = NoImageData) <=> payloads = << >>

\* ---------------------------------------------------------------- C21
\* C21: strictly sequential batch.  generatedImages is always a prefix of the
\* catalog in catalog order; at most one entry is Pending and it is the last;
\* while the call of style i is awaited the entries are those of styles 1..i,
\* all before the i-th Ready or Failed and the i-th Pending (so the placeholder
\* and the call of a style come only after the style before it is terminal);
\* with no call awaited no entry is Pending.
C21_StrictlySequentialBatch ==
  /\ Len(generatedImages) <= Len(Catalog)
  /\ \A k \in 1..Len(generatedImages) :
       /\ generatedImages[k].style = Catalog[k]
       /\ Pending(generatedImages[k]) => k = Len(generatedImages)
  /\ IF batch.pc = "await"
       THEN /\ Len(generatedImages) = batch.i
            /\ Pending(generatedImages[batch.i])
       ELSE ~SomePending(generatedImages)

\* ---------------------------------------------------------------- C22
\* C22: no result of an earlier context is applied to a later one.  Every
\* Ready entry of generatedImages and the video in generatedVideo were
\* generated from the image that is loaded now: they carry its file name, and
\* a Ready entry holds the restyled data of that image.
C22_ResultsBelongToLoadedImage ==
  /\ \A k \in 1..Len(generatedImages) :
       Ready(generatedImages[k]) =>
         /\ Truthy(uploadedImage)
         /\ generatedImages[k].originalFileName = uploadedFileName
         /\ generatedImages[k].imageUrl = uploadedImage
  /\ generatedVideo # Null =>
       /\ Truthy(uploadedImage)
       /\ generatedVideo.originalFileName = uploadedFileName

\* ---------------------------------------------------------------- C23
\* C23: handleImageUpload never runs while a batch or a video job is in
\* progress.  With generating or generatingVideo true no step loads or removes
\* an image, the end of a file read begun before the run included, so the
\* results are never cleared in the middle of a run.
C23_NoUploadDuringRun ==
  [][ isLoading =>
        /\ ~UploadStep
        /\ generatedImages # << >> => generatedImages' # << >> ]_vars

\* ---------------------------------------------------------------- C24
\* C24: video outcome exclusivity.  generatedVideo and videoError are never
\* both present; while a video job is in flight no error is shown and the
\* credential flag does not change, whatever handleSelectVeoApiKey calls and
\* host dialogs complete meanwhile.
C24_VideoOutcomeExclusive ==
  [][ /\ ~(generatedVideo' # Null /\ videoError' # Null)
      /\ generatingVideo' => videoError' = Null
      /\ generatingVideo /\ generatingVideo'
           => hasSelectedVeoApiKey' = hasSelectedVeoApiKey
    ]_vars

\* ---------------------------------------------------------------- C25
Polling(j) == j.pc \in {"wait", "poll"}

\* The polling loop has gone round as often as the remote service answered
\* not-done.
C25_PolledToTheLast ==
  /\ job.pc = "poll" /\ generatingVideo
  /\ Cardinality(PollsIn(calls)) = MaxPolls
  /\ ~job.operation.done

\* C25: unbounded polling.  A waiting job does nothing but poll when its timer
\* fires; a poll that reports not-done is followed by another wait, however
\* many there have been, and the job leaves the loop only on a poll that
\* reports done (to the download, or to the missing-link error) or on a poll
\* that fails; generatingVideo is true all the while, and a job ends Ready with
\* a video or Failed with an error, generatingVideo false.  When every awaited
\* call settles and the operation is reported done or a call fails in the end,
\* no job stays in progress for ever: again and again no job is running and
\* generatingVideo is false.
C25_UnboundedPolling ==
  /\ [][ /\ Polling(job') => generatingVideo'
         /\ job # IdleJob /\ job' = IdleJob =>
              ~generatingVideo' /\ (generatedVideo' # Null \/ videoError' # Null)
         /\ job.pc = "wait" /\ job' # job => job'.pc = "poll"
         /\ job.pc = "poll" /\ job' # job =>
              \/ job'.pc = "wait" /\ ~job'.operation.done
              \/ job'.pc = "fetch" /\ job'.operation.done
              \/ /\ job' = IdleJob /\ ended'.by = "getVideosOperation"
                 /\ \/ ended'.cause \in RemoteMessages
                    \/ ended'.cause = NoDownloadLink /\ ended'.operation.done
       ]_vars
  /\ []<>(~generatingVideo /\ job = IdleJob)

\* ---------------------------------------------------------------- C26
\* The styles whose generateStyledImage call the step settled are first, first
\* + 1, ..., in order.
SettledFrom(outs, first) == \A k \in 1..Len(outs) : outs[k].i = first + k - 1

\* C26: batch termination.  The loop calls generateStyledImage once per
\* catalog style, in catalog order: a step of the loop settles the call it
\* awaited (a starting step begins with style 1) and those that follow without
\* a wait, then awaits the call of the next style or, after the last style,
\* finishes with generating false; a call is awaited only with generating
\* true.  When every awaited call settles, no batch stays in progress for ever:
\* again and again generating is false with no call awaited.
C26_BatchTerminates ==
  /\ [][ /\ batch'.pc = "await" => generating'
         /\ ~generating' => batch' = IdleBatch
         /\ batch.pc = "await" /\ batch' # batch =>
              /\ settled' # << >> /\ SettledFrom(settled', batch.i)
              /\ IF batch'.pc = "await"
                   THEN batch'.i = batch.i + Len(settled')
                   ELSE batch.i + Len(settled') = Len(Catalog) + 1 /\ ~generating'
         /\ BatchStarts =>
              /\ SettledFrom(settled', 1)
              /\ IF batch'.pc = "await"
                   THEN batch'.i = 1 + Len(settled')
                   ELSE Len(settled') = Len(Catalog) /\ ~generating'
       ]_vars
  /\ []<>(~generating /\ batch = IdleBatch)

\* A batch has finished on the settled call of the last style.
C26_LastCallSettled ==
  /\ batch = IdleBatch /\ ~generating
  /\ Len(generatedImages) = Len(Catalog)
  /\ Len(settled) = 1 /\ settled[1].i = Len(Catalog) /\ settled[1].resolved

\* ---------------------------------------------------------------- C27
\* A step of generateVariations: its start, or the continuation of its await.
BatchStep == BatchStarts \/ LoopStep
\* A step of handleGenerateVideo: its start, or the continuation of an await.
VideoStep == job' # job \/ calls' # calls \/ ended' # ended

\* C27: independence of the two orchestrators.  A step of the batch leaves
\* the video result, the video error, generatingVideo, the credential flag and
\* the running job as they are; a step of the video job leaves the image
\* results, the error log, generating and the running batch as they are.
C27_OrchestratorsIndependent ==
  [][ /\ BatchStep => UNCHANGED << generatedVideo, videoError, generatingVideo,
                                   hasSelectedVeoApiKey, job, calls, ended >>
      /\ VideoStep => UNCHANGED << generatedImages, error, generating, batch, settled >>
    ]_vars

\* A batch and a video job are in flight at the same time.
C27_BothInFlight ==
  /\ batch.pc = "await" /\ generating
  /\ job.pc \in {"submit", "wait", "poll", "fetch"} /\ generatingVideo

\* ---------------------------------------------------------------- C28
\* C28: the artifact of a Ready job stays usable while the state refers to it.
\* Whatever the user does, downloading included, the object URL in
\* generatedVideo is not revoked as long as generatedVideo holds it.
C28_VideoUrlStaysValid ==
  generatedVideo # Null => generatedVideo.videoUrl \notin revoked

\* ---------------------------------------------------------------- C29
\* C29: no submission with an empty prompt.  Whatever the user does, every
\* generateVideos call of a job carries a non-empty prompt, the prompt the job
\* was started with, and no job runs on an empty prompt.
C29_NoEmptyPromptSubmitted ==
  /\ job.pc # "idle" => job.prompt # ""
  /\ \A k \in SubmitsIn(calls) :
       calls[k].arg.prompt # "" /\ calls[k].arg.prompt = job.prompt

\* generateVideos has been called and is awaited.
C29_SubmissionAwaited ==
  /\ job.pc = "submit" /\ generatingVideo
  /\ SubmitsIn(calls) = {Len(calls)}
  /\ calls[Len(calls)].arg.prompt = videoPrompt /\ videoPrompt # ""

====
